---- MODULE Spec2Model ----
(***************************************************************************)
(* Model of experimental/python/scripts/build-registry-assets.py: the      *)
(* registry-asset build.  main() walks the module directories in sorted    *)
(* order, reads each descriptor, applies the --only filter, builds one     *)
(* tarball per module, digests it, assembles a registry entry, and writes  *)
(* the registry index after the loop.                                      *)
(*                                                                         *)
(* Text is modelled as a sequence of tokens, so that concatenation (file   *)
(* names, archive member names, URLs) is sequence concatenation and two    *)
(* different (name, version) pairs can produce the same file name.         *)
(***************************************************************************)
EXTENDS Integers, Sequences, FiniteSets, TLC

VARIABLES
  fs,          \* the modules directory: dir -> [desc, tree]
  v1,          \* the loaded v1 registry's "modules" mapping
  args,        \* parsed command line: only, repository, tag
  ioBudget,    \* I/O failures the environment may still inject
  pc,          \* position of main()
  run,         \* number of the current invocation of main()
  cur,         \* index of the module the loop is at
  meta,        \* ModuleMeta of the current module
  file_list,   \* build_tarball's file_list
  pos,         \* index of the next element of file_list to add
  inodes,      \* tarfile's inode table of the open archive
  entries,     \* main's entries dict, in insertion order
  status,      \* per module dir, what this run did with it
  err,         \* the exception that ended the run
  disk,        \* files under out_dir: path -> archive file
  indexFile,   \* content of the registry index file
  indexWrites, \* times this run wrote the registry index
  nbuilt,      \* per module dir, archives completed over all runs
  builds       \* bytes of every archive completed, with the directory built

vars == <<fs, v1, args, ioBudget, pc, run, cur, meta, file_list, pos, inodes,
          entries, status, err, disk, indexFile, indexWrites, nbuilt, builds>>

----------------------------------------------------------------------------
(* Bounds of the model *)

MaxRuns == 2      \* invocations of main() in one behaviour
MaxExtra == 2     \* directory entries besides module.yaml, over all modules
MaxFaults == 1    \* I/O failures injected in one behaviour

----------------------------------------------------------------------------
(* Text *)

Dash == "-"
Slash == "/"
Space == " "
TarGz == ".tar.gz"

NoText == <<>>

RECURSIVE LStrip(_)
LStrip(s) == IF s # <<>> /\ Head(s) = Space THEN LStrip(Tail(s)) ELSE s

RECURSIVE RStrip(_)
RStrip(s) ==
  IF s # <<>> /\ s[Len(s)] = Space THEN RStrip(SubSeq(s, 1, Len(s) - 1)) ELSE s

\* str.strip()
Strip(s) == RStrip(LStrip(s))

\* Code-point order of the tokens that occur in relative paths.
Rank(tok) ==
  CASE tok = ".DS_Store" -> 1
    [] tok = Slash -> 2
    [] tok = "a.txt" -> 3
    [] tok = "b.txt" -> 4
    [] tok = "module.yaml" -> 5
    [] OTHER -> 6

RECURSIVE TextLess(_, _)
TextLess(s, t) ==
  IF t = <<>> THEN FALSE
  ELSE IF s = <<>> THEN TRUE
  ELSE IF Rank(Head(s)) # Rank(Head(t)) THEN Rank(Head(s)) < Rank(Head(t))
  ELSE TextLess(Tail(s), Tail(t))

RECURSIVE InsertSorted(_, _)
InsertSorted(x, s) ==
  IF s = <<>> THEN <<x>>
  ELSE IF TextLess(x, Head(s)) THEN <<x>> \o s
  ELSE <<Head(s)>> \o InsertSorted(x, Tail(s))

\* list_files without its final sort: the walk order is returned.
SortNoop(s) == s

\* list.sort() of line 96
RECURSIVE Sorted(_)
Sorted(s) == IF s = <<>> THEN <<>> ELSE InsertSorted(Head(s), Sorted(Tail(s)))

\* The part of a path before its first separator.
RECURSIVE TopLevel(_)
TopLevel(path) ==
  IF path = <<>> \/ Head(path) = Slash THEN <<>>
  ELSE <<Head(path)>> \o TopLevel(Tail(path))

Restrict(f, K) == [k \in K |-> f[k]]

Range(s) == {s[i] : i \in DOMAIN s}

Perms(S) ==
  {p \in [1..Cardinality(S) -> S] : \A i, j \in 1..Cardinality(S) : p[i] = p[j] => i = j}

----------------------------------------------------------------------------
(* The inputs: module directories, the v1 registry, the command line *)

\* sorted(modules_dir.glob("*/module.yaml")): the module directories, in order.
ModuleDirs == <<"m1", "m2">>

NumModules == Len(ModuleDirs)

ModuleYaml == <<"module.yaml">>

Wanted == {"name", "version", "tier", "responsibility"}

Quote == "'"

NameA == <<"a">>
NameB == <<"b">>
NameAB == <<"a", Dash, "b">>
NameUp == <<"..", Slash, "a">>
Names == {NameA, NameB, NameAB, NameUp}

Version1 == <<"1">>
VersionB1 == <<"b", Dash, "1">>
Versions == {Version1, VersionB1}

\* A descriptor file is its lines; a line the pattern of line 45 matches is
\* [key, val], any other line is [key |-> "", val |-> <<>>] (blank, comment).
CommentLine == [key |-> "", val |-> NoText]

DescLines(n, v, d) ==
  << CommentLine,
     [key |-> "name", val |-> n],
     [key |-> "version", val |-> <<Quote>> \o v \o <<Quote>>],
     [key |-> "tier", val |-> <<"exec">>],
     [key |-> "license", val |-> <<"MIT">>],
     [key |-> "responsibility", val |-> <<"does ", d>>] >>

\* The lines of s whose key is not k.
RECURSIVE WithoutKey(_, _)
WithoutKey(s, k) ==
  IF s = <<>> THEN <<>>
  ELSE IF Head(s).key = k THEN WithoutKey(Tail(s), k)
  ELSE <<Head(s)>> \o WithoutKey(Tail(s), k)

Descriptors(d) ==
  {DescLines(n, v, d) : n \in Names, v \in Versions}
    \cup {WithoutKey(DescLines(NameA, Version1, d), k) : k \in Wanted}

\* Directory entries of a module besides module.yaml.  "reg" is a regular
\* file with one link; "hard" a regular file with more than one link, all
\* "hard" files of a module sharing one inode (a lone one has its other link
\* outside the module); "symlink" a symbolic link to a file; "symdir" a
\* symbolic link to a directory.
ExtraNames == {<<"a.txt">>, <<"b.txt">>, <<".DS_Store">>}
Kinds == {"reg", "hard", "symlink", "symdir"}

YamlEntry == [rel |-> ModuleYaml, kind |-> "reg"]

ExtraEntries == [rel : ExtraNames, kind : Kinds]

Trees ==
  {{YamlEntry} \cup X : X \in
     {Y \in SUBSET ExtraEntries :
        /\ Cardinality(Y) <= MaxExtra
        /\ \A e, f \in Y : e.rel = f.rel => e = f}}

Extras(tree) == Cardinality(tree) - 1

PlainTree == {YamlEntry, [rel |-> <<"a.txt">>, kind |-> "reg"]}

\* What os.stat reports of owner and modification time; the build may meet
\* any of these at any file.
Stats ==
  { [uid |-> 1000, gid |-> 1000, uname |-> "dev", gname |-> "dev", mtime |-> 1700000000],
    [uid |-> 501, gid |-> 20, uname |-> "ci", gname |-> "staff", mtime |-> 1] }

\* Wall-clock readings.
Clock == {1700000000, 1700000600}

\* v1 registry entries: any subset of the keys, each value empty or not.
LegacyKeys == {"description", "author", "tags"}

LegacyFull ==
  [description : {NoText, <<"legacy description">>}, author : {NoText, <<"alice">>},
   tags : {<<>>, <<"t1">>}]

LegacyInfos == {Restrict(f, K) : f \in LegacyFull, K \in SUBSET LegacyKeys}

NoModules == <<>>

DefaultRepository == "https://github.com/Cognary/cognitive"

Repositories == {DefaultRepository, "https://example.org/fork"}

\* Values of the repeatable --only option.
OnlyArgs ==
  { <<>>, <<NameA>>, <<<<Space>> \o NameB \o <<Space>>>>, <<<<Space>>>>,
    <<NameA, NameAB>> }

----------------------------------------------------------------------------
(* read_module_yaml_scalars *)

Unquote(val) ==
  IF Len(val) >= 1 /\ Head(val) = Quote /\ val[Len(val)] = Quote
  THEN SubSeq(val, 2, Len(val) - 1)
  ELSE val

\* The loop of lines 41-55: found, as a function on the keys met.
RECURSIVE Found(_, _)
Found(lines, found) ==
  IF lines = <<>> THEN found
  ELSE LET l == Head(lines) IN
    IF l.key \notin Wanted THEN Found(Tail(lines), found)
    ELSE Found(Tail(lines),
               (l.key :> Unquote(Strip(l.val))) @@ Restrict(found, DOMAIN found \ {l.key}))

Missing(lines) == Wanted \ DOMAIN Found(lines, <<>>)

\* A descriptor lacking a required key raises (lines 57-59).
MetadataIncomplete(lines) == Missing(lines) # {}

ModuleMeta(lines) ==
  LET f == Found(lines, <<>>) IN
  [name |-> f["name"], version |-> f["version"], tier |-> f["tier"],
   responsibility |-> f["responsibility"]]

NoMeta == [name |-> NoText, version |-> NoText, tier |-> NoText, responsibility |-> NoText]

----------------------------------------------------------------------------
(* list_files *)

Ignored == {".DS_Store"}

Basename(rel) == rel[Len(rel)]

Raised == [raised |-> TRUE, out |-> <<>>]

\* The loop over files of lines 88-95.
RECURSIVE ScanFiles(_, _)
ScanFiles(files, out) ==
  IF files = <<>> THEN [raised |-> FALSE, out |-> out]
  ELSE LET f == Head(files) IN
    IF Basename(f.rel) \in Ignored THEN ScanFiles(Tail(files), out)
    ELSE IF f.kind = "symlink" THEN Raised
    ELSE ScanFiles(Tail(files), Append(out, f.rel))

\* walk: what os.walk yields for the module root, [dirs, files], each in the
\* directory-iteration order of the moment.
list_files(walk) ==
  IF \E i \in DOMAIN walk.dirs : walk.dirs[i].kind = "symdir" THEN Raised
  ELSE LET r == ScanFiles(walk.files, <<>>) IN
    IF r.raised THEN Raised ELSE [raised |-> FALSE, out |-> Sorted(r.out)]

\* The orders in which os.walk may yield a module's entries.
Walks(tree) ==
  LET D == {e \in tree : e.kind = "symdir"}
      F == {e \in tree : e.kind # "symdir"}
  IN {[dirs |-> d, files |-> f] : d \in Perms(D), f \in Perms(F)}

----------------------------------------------------------------------------
(* build_tarball *)

Filename(name, version) == name \o <<Dash>> \o version \o <<TarGz>>

Arcname(name, rel) == name \o <<Slash>> \o rel

Inode(e) == IF e.kind = "hard" THEN <<"shared inode">> ELSE e.rel

Nlink(e) == IF e.kind = "hard" THEN 2 ELSE 1

\* TarFile.gettarinfo: lstat of the source; a regular file with several links
\* whose inode is already in the archive under another name is a link entry.
TarType(e, arcname, seen) ==
  IF e.kind = "symlink" THEN "SYMTYPE"
  ELSE IF Nlink(e) > 1 /\ Inode(e) \in DOMAIN seen /\ seen[Inode(e)] # arcname
       THEN "LNKTYPE"
       ELSE "REGTYPE"

SeenAfter(e, arcname, seen) ==
  IF e.kind # "symlink" /\ TarType(e, arcname, seen) = "REGTYPE"
  THEN (Inode(e) :> arcname) @@ Restrict(seen, DOMAIN seen \ {Inode(e)})
  ELSE seen

GetTarInfo(e, arcname, seen, st, data) ==
  [name |-> arcname, type |-> TarType(e, arcname, seen), mode |-> "0644",
   uid |-> st.uid, gid |-> st.gid, uname |-> st.uname, gname |-> st.gname,
   mtime |-> st.mtime, data |-> data]

\* Lines 119-123.
Normalized(ti) ==
  [ti EXCEPT !.uid = 0, !.gid = 0, !.uname = "root", !.gname = "root", !.mtime = 0]

\* Line 125.
IsLink(ti) == ti.type \in {"SYMTYPE", "LNKTYPE"}


Bytes(f) == [header |-> f.header, members |-> f.members, closed |-> f.closed]

----------------------------------------------------------------------------
(* sha256_file, stat *)

\* The hex digest, as an injective image of the bytes read.
Sha256(bytes) == <<"hex", bytes>>

Checksum(digest) == <<"sha256:", digest>>

RECURSIVE MembersSize(_)
MembersSize(ms) ==
  IF ms = <<>> THEN 0 ELSE 512 + Len(Head(ms).data) + MembersSize(Tail(ms))

\* st_size
Size(bytes) == 10 + MembersSize(bytes.members) + (IF bytes.closed THEN 1024 + 8 ELSE 0)

----------------------------------------------------------------------------
(* main: the registry entry *)

\* set([x.strip() for x in args.only if x.strip()]), line 171
OnlySet(only) == {Strip(only[i]) : i \in DOMAIN only} \ {NoText}

SkipsListed(only, name) == only # {} /\ name \in only

\* Line 180: the module is passed over.
IsSkipped(only, name) == only # {} /\ name \notin only

\* dict.get(k) or default
GetOr(d, k, default) ==
  IF k \in DOMAIN d /\ d[k] # <<>> THEN d[k] ELSE default

\* v1_modules.get(meta.name, {}), line 183
V1Info(modules, name) == IF name \in DOMAIN modules THEN modules[name] ELSE <<>>

DescriptionOwnFirst(info, m) ==
  IF m.responsibility # <<>> THEN m.responsibility
  ELSE GetOr(info, "description", m.responsibility)

\* Lines 184-186.
Description(info, m) == GetOr(info, "description", m.responsibility)

Author(info) == GetOr(info, "author", <<"unknown">>)

Keywords(info) == GetOr(info, "tags", <<>>)

\* Path.name: the text after the last separator.
RECURSIVE PathName(_)
PathName(path) ==
  IF \E i \in DOMAIN path : path[i] = Slash THEN PathName(Tail(path)) ELSE path

\* gzip.GzipFile(fileobj=raw, mode="wb", mtime=0): the header carries the
\* given mtime, not the clock, and the file's base name without ".gz".
GzipHeader(path, now) ==
  [mtime |-> 0,
   fname |-> SubSeq(PathName(path), 1, Len(PathName(path)) - 1) \o <<".tar">>]

\* Line 191.
TarballUrl(a, tar_name) ==
  <<"https://github.com/Cognary/cognitive", "/releases/download/", a.tag, Slash>> \o tar_name

\* Lines 193-226, without the fields that are copied from the command line
\* unchanged (namespace, license, homepage, runtime_min) and the timestamps.
MakeEntry(m, info, a, tar_name, digest, size, files) ==
  [identity |-> [name |-> m.name, version |-> m.version],
   metadata |-> [description |-> Description(info, m),
                 description_zh |-> Description(info, m),
                 author |-> Author(info),
                 tier |-> m.tier,
                 repository |-> a.repository,
                 keywords |-> Keywords(info)],
   distribution |-> [tarball |-> TarballUrl(a, tar_name),
                     checksum |-> Checksum(digest),
                     size_bytes |-> size,
                     files |-> files]]

Keys(es) == [i \in DOMAIN es |-> es[i].key]

HasKey(es, k) == \E i \in DOMAIN es : es[i].key = k

\* entries[k] = v on an insertion-ordered dict.
Put(es, k, v) ==
  IF HasKey(es, k)
  THEN [i \in DOMAIN es |-> IF es[i].key = k THEN [key |-> k, value |-> v] ELSE es[i]]
  ELSE Append(es, [key |-> k, value |-> v])

\* Lines 228-240.
Registry(es) ==
  [modules |-> es, featured |-> Keys(es), total_modules |-> Len(es)]

NoIndex == [modules |-> <<>>, featured |-> <<>>, total_modules |-> -1]

----------------------------------------------------------------------------
(* The state machine *)

NoErr == [kind |-> "none", at |-> "none"]

Dir(i) == ModuleDirs[i]

OutPath == Filename(meta.name, meta.version)

Only == OnlySet(args.only)

FreshStatus == [i \in 1..NumModules |-> "pending"]

DefaultDesc(d) == DescLines(IF d = Dir(1) THEN NameA ELSE NameB, Version1, d)

\* The initial states are the union of three families of inputs, each varying
\* one part of the input over its whole range: the directory trees (InputsFS),
\* the descriptors, the filter and the I/O failures (InputsMeta), the legacy
\* index and the repository URL (InputsLegacy).
InputsFS ==
  /\ \E t \in [{Dir(i) : i \in 1..NumModules} -> Trees] :
       /\ Extras(t[Dir(1)]) + Extras(t[Dir(2)]) <= MaxExtra
       /\ fs = [d \in {Dir(i) : i \in 1..NumModules} |->
               [desc |-> DefaultDesc(d), tree |-> t[d]]]
  /\ v1 = NoModules
  /\ args \in [only : {<<>>, <<NameB>>}, repository : {DefaultRepository}, tag : {"v1"}]
  /\ ioBudget = 0

InputsMeta ==
  /\ \E d1 \in Descriptors(Dir(1)), d2 \in Descriptors(Dir(2)) :
       fs = (Dir(1) :> [desc |-> d1, tree |-> PlainTree])
              @@ (Dir(2) :> [desc |-> d2, tree |-> PlainTree])
  /\ v1 = NoModules
  /\ args \in [only : OnlyArgs, repository : {DefaultRepository}, tag : {"v1"}]
  /\ ioBudget \in 0..MaxFaults

InputsLegacy ==
  /\ fs = [d \in {Dir(i) : i \in 1..NumModules} |->
             [desc |-> DefaultDesc(d), tree |-> PlainTree]]
  /\ v1 \in {NoModules} \cup {(NameA :> i) : i \in LegacyInfos}
  /\ args \in [only : {<<>>}, repository : Repositories, tag : {"v1"}]
  /\ ioBudget \in 0..MaxFaults

Init ==
  /\ \/ InputsFS
     \/ InputsMeta
     \/ InputsLegacy
  /\ pc = "load"
  /\ run = 1
  /\ cur = 0
  /\ meta = NoMeta
  /\ file_list = <<>>
  /\ pos = 0
  /\ inodes = <<>>
  /\ entries = <<>>
  /\ status = FreshStatus
  /\ err = NoErr
  /\ disk = <<>>
  /\ indexFile = NoIndex
  /\ indexWrites = 0
  /\ nbuilt = [i \in 1..NumModules |-> 0]
  /\ builds = {}

\* The locals and outputs an exception leaves as they are.
Frame ==
  UNCHANGED <<fs, v1, args, run, meta, file_list, pos, inodes, entries, status,
              indexFile, indexWrites, nbuilt, builds>>

\* A failed step whose exception is caught and the loop carried on.
RaiseAndContinue(kind, at, cost) ==
  /\ pc' = "loop"
  /\ cur' = cur + 1
  /\ err' = NoErr
  /\ ioBudget' = ioBudget - cost
  /\ UNCHANGED disk
  /\ Frame

\* No step of main() catches: an exception ends the run where it is, with
\* the files as the failing step left them.
Raise(kind, at, cost) ==
  /\ pc' = "aborted"
  /\ err' = [kind |-> kind, at |-> at]
  /\ ioBudget' = ioBudget - cost
  /\ UNCHANGED <<cur, disk>>
  /\ Frame

\* Line 168.
LoadRegistryV1 ==
  /\ pc = "load"
  /\ pc' = "loop"
  /\ cur' = 1
  /\ UNCHANGED <<fs, v1, args, ioBudget, run, meta, file_list, pos, inodes, entries,
                 status, err, disk, indexFile, indexWrites, nbuilt, builds>>

LoadRegistryV1Fails ==
  /\ pc = "load"
  /\ ioBudget > 0
  /\ Raise("IOFailure", "load_registry_v1", 1)

\* Lines 177-181: the descriptor is read, then the filter applied.
ReadModule ==
  /\ pc = "loop"
  /\ cur <= NumModules
  /\ ~MetadataIncomplete(fs[Dir(cur)].desc)
  /\ LET m == ModuleMeta(fs[Dir(cur)].desc) IN
       IF IsSkipped(Only, m.name)
       THEN /\ cur' = cur + 1
            /\ status' = [status EXCEPT ![cur] = "skipped"]
            /\ UNCHANGED <<pc, meta>>
       ELSE /\ meta' = m
            /\ pc' = "build"
            /\ UNCHANGED <<cur, status>>
  /\ UNCHANGED <<fs, v1, args, ioBudget, run, file_list, pos, inodes, entries, err,
                 disk, indexFile, indexWrites, nbuilt, builds>>

ReadModuleIncomplete ==
  /\ pc = "loop"
  /\ cur <= NumModules
  /\ MetadataIncomplete(fs[Dir(cur)].desc)
  /\ Raise("MetadataIncomplete", "read_module_yaml_scalars", 0)

\* Lines 101-108: mkdir, out_path, list_files.
ListFiles ==
  /\ pc = "build"
  /\ \E walk \in Walks(fs[Dir(cur)].tree) :
       LET r == list_files(walk) IN
         IF r.raised
         THEN Raise("SymlinkRejected", "list_files", 0)
         ELSE /\ file_list' = r.out
              /\ pc' = "open"
              /\ UNCHANGED <<fs, v1, args, ioBudget, run, cur, meta, pos, inodes,
                             entries, status, err, disk, indexFile, indexWrites,
                             nbuilt, builds>>

MkdirFails ==
  /\ pc = "build"
  /\ ioBudget > 0
  /\ Raise("IOFailure", "mkdir", 1)

\* Lines 112-114: the output file is created or truncated, and the gzip
\* stream and the tar archive opened on it.
OpenArchive ==
  /\ pc = "open"
  /\ \E now \in Clock :
       disk' = (OutPath :> [header |-> GzipHeader(OutPath, now), members |-> <<>>,
                            closed |-> FALSE, by |-> cur, in |-> run])
                 @@ Restrict(disk, DOMAIN disk \ {OutPath})
  /\ inodes' = <<>>
  /\ pos' = 1
  /\ pc' = "add"
  /\ UNCHANGED <<fs, v1, args, ioBudget, run, cur, meta, file_list, entries, status,
                 err, indexFile, indexWrites, nbuilt, builds>>

OpenArchiveFails ==
  /\ pc = "open"
  /\ ioBudget > 0
  /\ Raise("IOFailure", "open", 1)

EntryAt(d, rel) == CHOOSE e \in fs[d].tree : e.rel = rel

\* The bytes of a source file: the descriptor's lines for module.yaml.
ReadFile(d, rel) == IF rel = ModuleYaml THEN fs[d].desc ELSE <<"data">>

\* Lines 115-128, one turn of the loop.
AddFile ==
  /\ pc = "add"
  /\ pos <= Len(file_list)
  /\ \E st \in Stats :
       LET rel == file_list[pos]
           e == EntryAt(Dir(cur), rel)
           arcname == Arcname(meta.name, rel)
           ti == Normalized(GetTarInfo(e, arcname, inodes, st, ReadFile(Dir(cur), rel)))
       IN IF IsLink(ti)
          THEN Raise("SymlinkRejected", "build_tarball", 0)
          ELSE /\ disk' = [disk EXCEPT ![OutPath].members = Append(@, ti)]
               /\ inodes' = SeenAfter(e, arcname, inodes)
               /\ pos' = pos + 1
               /\ UNCHANGED <<fs, v1, args, ioBudget, pc, run, cur, meta, file_list,
                              entries, status, err, indexFile, indexWrites, nbuilt,
                              builds>>

\* The source file is gone or unreadable when the archive comes to it.
AddFileFails ==
  /\ pc = "add"
  /\ pos <= Len(file_list)
  /\ ioBudget > 0
  /\ Raise("IOFailure", "build_tarball", 1)

\* Leaving the with blocks of lines 112-114 normally: the end-of-archive
\* blocks and the gzip trailer are written.
CloseArchive ==
  /\ pc = "add"
  /\ pos > Len(file_list)
  /\ disk' = [disk EXCEPT ![OutPath].closed = TRUE]
  /\ nbuilt' = [nbuilt EXCEPT ![cur] = @ + 1]
  /\ builds' = builds \cup {[dir |-> Dir(cur), bytes |-> Bytes(disk'[OutPath])]}
  /\ pc' = "digest"
  /\ UNCHANGED <<fs, v1, args, ioBudget, run, cur, meta, file_list, pos, inodes,
                 entries, status, err, indexFile, indexWrites>>

\* Lines 183-226: digest, size, manifest, entry.
AssembleEntry ==
  /\ pc = "digest"
  /\ \E walk \in Walks(fs[Dir(cur)].tree) :
       LET bytes == Bytes(disk[OutPath])
           r == list_files(walk)
       IN IF r.raised
          THEN Raise("SymlinkRejected", "list_files", 0)
          ELSE /\ entries' = Put(entries, meta.name,
                                 MakeEntry(meta, V1Info(v1, meta.name), args,
                                           PathName(OutPath), Sha256(bytes),
                                           Size(bytes), r.out))
               /\ status' = [status EXCEPT ![cur] = "built"]
               /\ cur' = cur + 1
               /\ pc' = "loop"
               /\ UNCHANGED <<fs, v1, args, ioBudget, run, meta, file_list, pos,
                              inodes, err, disk, indexFile, indexWrites, nbuilt,
                              builds>>

\* Line 243.
WriteIndex ==
  /\ pc = "loop"
  /\ cur > NumModules
  /\ indexFile' = Registry(entries)
  /\ indexWrites' = indexWrites + 1
  /\ pc' = "done"
  /\ UNCHANGED <<fs, v1, args, ioBudget, run, cur, meta, file_list, pos, inodes,
                 entries, status, err, disk, nbuilt, builds>>

WriteIndexFails ==
  /\ pc = "loop"
  /\ cur > NumModules
  /\ ioBudget > 0
  /\ Raise("IOFailure", "write_text", 1)

\* The script is invoked again on the same inputs; the files the earlier run
\* left are still there.
RunAgain ==
  /\ pc \in {"done", "aborted"}
  /\ run < MaxRuns
  /\ run' = run + 1
  /\ pc' = "load"
  /\ cur' = 0
  /\ meta' = NoMeta
  /\ file_list' = <<>>
  /\ pos' = 0
  /\ inodes' = <<>>
  /\ entries' = <<>>
  /\ status' = FreshStatus
  /\ err' = NoErr
  /\ indexWrites' = 0
  /\ UNCHANGED <<fs, v1, args, ioBudget, disk, indexFile, nbuilt, builds>>

Next ==
  \/ LoadRegistryV1
  \/ LoadRegistryV1Fails
  \/ ReadModule
  \/ ReadModuleIncomplete
  \/ ListFiles
  \/ MkdirFails
  \/ OpenArchive
  \/ OpenArchiveFails
  \/ AddFile
  \/ AddFileFails
  \/ CloseArchive
  \/ AssembleEntry
  \/ WriteIndex
  \/ WriteIndexFails
  \/ RunAgain

Spec == Init /\ [][Next]_vars

----------------------------------------------------------------------------
(* Properties *)

Complete(i) == ~MetadataIncomplete(fs[Dir(i)].desc)

MetaOf(i) == ModuleMeta(fs[Dir(i)].desc)

Mods == 1..NumModules

\* The archive files module i wrote, or began to write, in the current run.
ArchivesOf(i) == {p \in DOMAIN disk : disk[p].by = i /\ disk[p].in = run}

HasSymlink(i) == \E e \in fs[Dir(i)].tree : e.kind \in {"symlink", "symdir"}

IndexKeys == Range(indexFile.featured)

\* C1: all-or-nothing index.  A run that aborts has not written the index;
\* no run writes it twice; a run that ends normally has written it once; and
\* when it is written every module has been skipped by the filter or fully
\* processed (archive closed, entry assembled) and the index holds exactly
\* the assembled entries.
C1_AllOrNothing ==
  /\ indexWrites <= 1
  /\ pc = "aborted" => indexWrites = 0
  /\ pc = "done" => indexWrites = 1
  /\ indexWrites = 1 =>
       /\ pc = "done"
       /\ indexFile = Registry(entries)
       /\ \A i \in Mods :
            /\ Complete(i)
            /\ status[i] \in {"skipped", "built"}
            /\ status[i] = "skipped" => IsSkipped(Only, MetaOf(i).name)
            /\ status[i] = "built" =>
                 /\ nbuilt[i] >= 1
                 /\ MetaOf(i).name \in IndexKeys

\* A run aborted at its second module, after the first was fully processed.
C1_Witness ==
  /\ pc = "aborted"
  /\ cur = 2
  /\ status[1] = "built"
  /\ err.kind \in {"MetadataIncomplete", "SymlinkRejected", "IOFailure"}
  /\ indexWrites = 0

\* C2: symlink safety.  A module whose directory holds a symbolic link (to a
\* file or to a directory) gets no archive in the run, and unless the filter
\* passes the module over the run writes no index.  (The claim says more: that
\* the run produces no archive at all.  This is what it says of the module
\* itself.)
C2_SymlinkSafety ==
  \A i \in Mods :
    HasSymlink(i) =>
      /\ ArchivesOf(i) = {}
      /\ status[i] # "built"
      /\ (Complete(i) /\ ~IsSkipped(Only, MetaOf(i).name)) => indexWrites = 0

\* C3: no partial archive.  When build_tarball has failed, the file at the
\* module's archive path does not exist or is a complete archive.
C3_NoPartialArchive ==
  (pc = "aborted" /\ err.at \in {"mkdir", "list_files", "open", "build_tarball"}) =>
    \/ OutPath \notin DOMAIN disk
    \/ /\ disk[OutPath].closed
       /\ Len(disk[OutPath].members) >= 1

\* C4: checksum correctness.  After a successful run every entry of the index
\* carries the digest and the length of the bytes then on disk in the file
\* <name>-<version>.tar.gz.
C4_ChecksumCorrect ==
  pc = "done" =>
    \A k \in DOMAIN indexFile.modules :
      LET e == indexFile.modules[k].value
          p == Filename(e.identity.name, e.identity.version)
      IN /\ p \in DOMAIN disk
         /\ e.distribution.checksum = Checksum(Sha256(Bytes(disk[p])))
         /\ e.distribution.size_bytes = Size(Bytes(disk[p]))

\* C5: filtering.  With a non-empty --only set, a module whose name is not in
\* the set is passed over: it has no archive written in the run and no entry;
\* after a successful run the index's modules are exactly the discovered
\* modules' names that are in the set, and every archive the run wrote is of
\* a module whose name is in the set.
C5_Filtering ==
  Only # {} =>
    /\ \A i \in Mods :
         (Complete(i) /\ MetaOf(i).name \notin Only) =>
           /\ status[i] # "built"
           /\ ArchivesOf(i) = {}
           /\ ~HasKey(entries, MetaOf(i).name)
    /\ \A p \in DOMAIN disk :
         disk[p].in = run => MetaOf(disk[p].by).name \in Only
    /\ pc = "done" => IndexKeys = {MetaOf(i).name : i \in Mods} \cap Only

\* A successful filtered run that passed over one module and built another.
C5_Witness ==
  /\ pc = "done"
  /\ Only # {}
  /\ \E i, j \in Mods : status[i] = "skipped" /\ status[j] = "built"

\* C6: single root.  Every completed archive has at least one entry, and the
\* top-level component of every entry's path is the name of the module it
\* was built for.
C6_SingleRoot ==
  \A p \in DOMAIN disk :
    disk[p].closed =>
      /\ disk[p].members # <<>>
      /\ \A k \in DOMAIN disk[p].members :
           TopLevel(disk[p].members[k].name) = MetaOf(disk[p].by).name

\* C7: determinism.  Any two completed builds of module directories with the
\* same descriptor and the same files have the same bytes, whatever the walk
\* order, the owners, the modification times and the clock were; every entry
\* has the fixed owner and mtime 0, the gzip header mtime 0, and the entries
\* are in ascending order of path.
C7_Determinism ==
  /\ \A b1, b2 \in builds : fs[b1.dir] = fs[b2.dir] => b1.bytes = b2.bytes
  /\ \A b \in builds :
       /\ b.bytes.header.mtime = 0
       /\ \A k \in DOMAIN b.bytes.members :
            LET ti == b.bytes.members[k] IN
              /\ ti.uid = 0 /\ ti.gid = 0 /\ ti.uname = "root" /\ ti.gname = "root"
              /\ ti.mtime = 0
              /\ k > 1 => TextLess(b.bytes.members[k - 1].name, ti.name)

\* A module of at least two packaged files has been built twice.
C7_Witness ==
  \E i \in Mods :
    /\ nbuilt[i] >= 2
    /\ \E b \in builds : b.dir = Dir(i) /\ Len(b.bytes.members) >= 2

HasValue(info, k) == k \in DOMAIN info /\ info[k] # <<>>

\* C8 as stated: when the legacy index has an entry for the name, description,
\* author and keywords are that entry's description, author and tags; when it
\* has none they are the responsibility text, "unknown" and the empty list;
\* description_zh equals description.
C8_MergePerEntry ==
  \A k \in DOMAIN entries :
    LET n == entries[k].key
        md == entries[k].value.metadata
    IN /\ md.description_zh = md.description
       /\ n \in DOMAIN v1 =>
            /\ "description" \in DOMAIN v1[n] /\ md.description = v1[n]["description"]
            /\ "author" \in DOMAIN v1[n] /\ md.author = v1[n]["author"]
            /\ "tags" \in DOMAIN v1[n] /\ md.keywords = v1[n]["tags"]
       /\ n \notin DOMAIN v1 =>
            /\ \E i \in Mods : Complete(i) /\ MetaOf(i).name = n
                                /\ md.description = MetaOf(i).responsibility
            /\ md.author = <<"unknown">>
            /\ md.keywords = <<>>

\* C8, amended: the precedence is per field.  Each of description, author and
\* keywords is the legacy entry's description, author, tags when the legacy
\* index has an entry for the name and that entry has a non-empty value for
\* the field; otherwise it is the responsibility text, "unknown", the empty
\* list; description_zh equals description.
C8_MergePerField ==
  \A k \in DOMAIN entries :
    LET n == entries[k].key
        md == entries[k].value.metadata
        info == V1Info(v1, n)
    IN /\ md.description_zh = md.description
       /\ IF HasValue(info, "description")
          THEN md.description = info["description"]
          ELSE \E i \in Mods : Complete(i) /\ MetaOf(i).name = n
                                /\ md.description = MetaOf(i).responsibility
       /\ md.author = (IF HasValue(info, "author") THEN info["author"] ELSE <<"unknown">>)
       /\ md.keywords = (IF HasValue(info, "tags") THEN info["tags"] ELSE <<>>)

\* An entry assembled for a name whose legacy entry has a description and no
\* author.
C8_Witness ==
  \E k \in DOMAIN entries :
    LET n == entries[k].key IN
      /\ n \in DOMAIN v1
      /\ HasValue(v1[n], "description")
      /\ "author" \notin DOMAIN v1[n]
      /\ entries[k].value.metadata.author = <<"unknown">>

\* C9: download URL.  The repository part of every entry's tarball URL is the
\* entry's metadata.repository (the --repository parameter), and its tag part
\* is the release tag.
C9_TarballUrl ==
  \A k \in DOMAIN entries :
    LET e == entries[k].value IN
      /\ e.distribution.tarball[1] = e.metadata.repository
      /\ e.distribution.tarball[3] = args.tag

\* C10: hardlink rejection.  After a successful run no module that was built
\* has a file with more than one link in its manifest or in its archive.
C10_NoHardlinkPackaged ==
  pc = "done" =>
    \A i \in Mods :
      status[i] = "built" =>
        \A e \in fs[Dir(i)].tree :
          e.kind = "hard" =>
            /\ \A k \in DOMAIN entries :
                 entries[k].key = MetaOf(i).name =>
                   e.rel \notin Range(entries[k].value.distribution.files)
            /\ \A p \in ArchivesOf(i) :
                 \A m \in DOMAIN disk[p].members :
                   disk[p].members[m].name # Arcname(MetaOf(i).name, e.rel)

====
